---- MODULE Spec2Model ----
(***************************************************************************)
(* A model of the go-youtube client: the claim, video and whitelist        *)
(* parameter builders, the nine exported operations, the RequestRunner     *)
(* round trip and DecodeResponse.                                          *)
(*                                                                         *)
(* Go strings are TLA+ strings, except where the code looks inside one:    *)
(* StatusModifiedAfter is a sequence of characters (the regular expression *)
(* reads it), and a response body, an Error's Description and an Error's   *)
(* Body are sequences of lexical units (the JSON decoder and               *)
(* strings.Index read them).                                               *)
(***************************************************************************)
EXTENDS Integers, Sequences, FiniteSets, TLC

VARIABLES build, pc, op, p, request, runCalls, decodeCalls, runErr, res, decoded,
          ret, calc

vars ==
    <<build, pc, op, p, request, runCalls, decodeCalls, runErr, res, decoded, ret, calc>>

----------------------------------------------------------------------------
(* Bounds of the model *)

\* the longest VideoIds, Ids and Parts list
MaxIds == 2

\* the longest response body, in lexical units
MaxBody == 3

\* the longest text put before and after a date-like StatusModifiedAfter
MaxAffix == 1

----------------------------------------------------------------------------
(* strings.Join *)

RECURSIVE Join(_, _)
Join(elems, sep) ==
    IF Len(elems) = 0 THEN ""
    ELSE IF Len(elems) = 1 THEN elems[1]
    ELSE elems[1] \o sep \o Join(Tail(elems), sep)

SeqsUpTo(S, n) == UNION {[1..k -> S] : k \in 0..n}

----------------------------------------------------------------------------
(* url.Values: a map from key to the list of its values *)

EmptyValues == [k \in {} |-> <<>>]

Values_Add(vals, key, value) ==
    [k \in DOMAIN vals \cup {key} |->
        IF k = key
        THEN (IF key \in DOMAIN vals THEN Append(vals[key], value) ELSE <<value>>)
        ELSE vals[k]]

\* url.Values.Set replaces whatever the key held
Values_Set(vals, key, value) ==
    [k \in DOMAIN vals \cup {key} |-> IF k = key THEN <<value>> ELSE vals[k]]

----------------------------------------------------------------------------
(* claims.go: ClaimStatus *)

ClaimStatusActive == "active"
ClaimStatusAppealed == "appealed"
ClaimStatusDisputed == "disputed"
ClaimStatusInactive == "inactive"
ClaimStatusPending == "pending"
ClaimStatusPotential == "potential"
ClaimStatusRoutedForReview == "routedForReview"
ClaimStatusTakedown == "takedown"

ClaimSortDate == "date"
ClaimSortViewCount == "viewCount"

YoutubePartnerV1 == "https://www.googleapis.com/youtube/partner/v1"
BaseUrlV3 == "https://www.googleapis.com/youtube/v3"
SearchClaimsUrl == YoutubePartnerV1 \o "/claimSearch"
PatchClaimUrl == YoutubePartnerV1 \o "/claims"

ClaimStatus_Valid(s) ==
    s \in {ClaimStatusActive, ClaimStatusAppealed, ClaimStatusDisputed,
           ClaimStatusInactive, ClaimStatusPending, ClaimStatusPotential,
           ClaimStatusRoutedForReview, ClaimStatusTakedown}

----------------------------------------------------------------------------
(* claims.go: DateRegexp, \d{4}-\d{2}-\d{2}, and regexp.MatchString, which *)
(* looks for the pattern anywhere in the string                            *)

IsDigit(c) == c \in {"0", "1", "2", "3", "4", "5", "6", "7", "8", "9"}

\* the pattern's ten characters match s from position i
DateRegexp_MatchesAt(s, i) ==
    /\ i >= 1
    /\ i + 9 <= Len(s)
    /\ \A k \in 0..9 :
          IF k \in {4, 7} THEN s[i + k] = "-" ELSE IsDigit(s[i + k])

DateRegexp_MatchString(s) ==
    \E i \in 1..Len(s) : DateRegexp_MatchesAt(s, i)

----------------------------------------------------------------------------
(* claims.go: SearchClaimsParams *)

SearchClaimsParams_required(q) ==
    <<q.AssetId, q.Q, q.ReferenceId, Join(q.VideoIds, ","), q.Status>>

\* the loop of Validate: count after the first n entries of required
SearchClaimsParams_count(q, n) ==
    Cardinality({i \in 1..n : SearchClaimsParams_required(q)[i] # ""})

\* a Validate without the count of the filters: only the Status is looked at
SearchClaimsParams_Validate_NoCountCheck(q) ==
    ~(q.Status = "" \/ ~ClaimStatus_Valid(q.Status))

SearchClaimsParams_Validate(q) ==
    IF \E n \in 1..Len(SearchClaimsParams_required(q)) :
           SearchClaimsParams_count(q, n) > 1
    THEN FALSE
    ELSE IF q.Status = "" \/ ~ClaimStatus_Valid(q.Status)
    THEN FALSE
    ELSE TRUE

SearchClaimsParams_Values(q) ==
    LET v1 == IF q.AssetId # ""
              THEN Values_Add(EmptyValues, "assetId", q.AssetId) ELSE EmptyValues
        v2 == IF q.Q # "" THEN Values_Add(v1, "q", q.Q) ELSE v1
        v3 == IF q.ReferenceId # ""
              THEN Values_Add(v2, "referenceId", q.ReferenceId) ELSE v2
        v4 == IF Len(q.VideoIds) > 0
              THEN Values_Add(v3, "videoId", Join(q.VideoIds, ",")) ELSE v3
        v5 == IF q.Status # "" THEN Values_Add(v4, "status", q.Status) ELSE v4
        v6 == IF q.IncludeThirdPartyClaims
              THEN Values_Add(v5, "includeThirdPartyClaims", "true")
              ELSE Values_Add(v5, "includeThirdPartyClaims", "false")
        v7 == IF q.OnBehalfOfContentOwner # ""
              THEN Values_Add(v6, "onBehalfOfContentOwner", q.OnBehalfOfContentOwner)
              ELSE v6
        v8 == IF q.PageToken # "" THEN Values_Add(v7, "pageToken", q.PageToken) ELSE v7
        v9 == IF q.Sort = ClaimSortDate THEN Values_Add(v8, "sort", "date")
              ELSE IF q.Sort = ClaimSortViewCount THEN Values_Add(v8, "sort", "viewCount")
              ELSE v8
    IN  IF q.StatusModifiedAfter # <<>> /\ DateRegexp_MatchString(q.StatusModifiedAfter)
        THEN Values_Add(v9, "statusModifiedAfter", q.StatusModifiedAfter)
        ELSE v9

----------------------------------------------------------------------------
(* claims.go: PatchClaimsParams *)

ErrInvalidClaimSearchParams == [kind |-> "sentinel", name |-> "invalid claim search params"]
ErrInvalidPatchClaimsParams == [kind |-> "sentinel", name |-> "invalid patch claims params"]

NoError == [kind |-> "nil"]
NoReader == [kind |-> "nil"]

\* a Validate that does not look at ClaimId
PatchClaimsParams_Validate_NoClaimId(q) ==
    q.Status # "" /\ ClaimStatus_Valid(q.Status)

PatchClaimsParams_Validate(q) ==
    q.ClaimId # "" /\ q.Status # "" /\ ClaimStatus_Valid(q.Status)

PatchClaimsParams_Url(q) == PatchClaimUrl \o "/" \o q.ClaimId

PatchClaimsParams_Params(q) ==
    IF q.OnBehalfOfContentOwner # ""
    THEN Values_Set(EmptyValues, "onBehalfOfContentOwner", q.OnBehalfOfContentOwner)
    ELSE EmptyValues

\* the map m of Body: its keys and their values
PatchClaimsParams_Body_m(q) ==
    IF q.Status # "" /\ ClaimStatus_Valid(q.Status)
    THEN [k \in {"status"} |-> q.Status]
    ELSE [k \in {} |-> ""]

\* a Body that puts any Status into the map
PatchClaimsParams_Body_AnyStatus(q) ==
    [reader |-> [kind |-> "json", m |-> [k \in {"status"} |-> q.Status]],
     err |-> NoError]

\* (io.Reader, error): json.Marshal of a map of strings does not fail
PatchClaimsParams_Body(q) ==
    IF DOMAIN PatchClaimsParams_Body_m(q) = {}
    THEN [reader |-> NoReader, err |-> ErrInvalidPatchClaimsParams]
    ELSE [reader |-> [kind |-> "json", m |-> PatchClaimsParams_Body_m(q)],
          err |-> NoError]

----------------------------------------------------------------------------
(* video.go: ListVideoParams *)

ListVideosUrl == BaseUrlV3 \o "/videos"

\* a []string of the same length, each part converted to string
ListVideoParams_convertParts(q) ==
    IF Len(q.Parts) = 0 THEN <<>>
    ELSE [i \in 1..Len(q.Parts) |-> q.Parts[i]]

\* a Values() that emits id whenever Ids is set, beside the page token
ListVideoParams_Values_IdsAlways(q) ==
    LET v1 == Values_Add(EmptyValues, "part", Join(ListVideoParams_convertParts(q), ","))
        v2 == IF q.PageToken # "" THEN Values_Add(v1, "pageToken", q.PageToken) ELSE v1
    IN  IF Len(q.Ids) > 0 THEN Values_Add(v2, "id", Join(q.Ids, ",")) ELSE v2

ListVideoParams_Values(q) ==
    LET v1 == Values_Add(EmptyValues, "part", Join(ListVideoParams_convertParts(q), ","))
    IN  IF q.PageToken # "" THEN Values_Add(v1, "pageToken", q.PageToken)
        ELSE IF Len(q.Ids) > 0 THEN Values_Add(v1, "id", Join(q.Ids, ","))
        ELSE v1

----------------------------------------------------------------------------
(* whitelist parameters *)

WhitelistUrl == YoutubePartnerV1 \o "/whitelists"
UserInfoUrl == "https://www.googleapis.com/oauth2/v2/userinfo"
ExchangeOAuthTokenUrl == "https://oauth2.googleapis.com/token"

ErrNotWhitelisted == [kind |-> "sentinel", name |-> "not whitelisted"]
ErrRateLimited == [kind |-> "sentinel", name |-> "rate limited"]

\* Get-, Insert- and DeleteWhitelistParams.Values: the key is always emitted
WhitelistParams_Values(q) ==
    Values_Add(EmptyValues, "onBehalfOfContentOwner", q.OnBehalfOfContentOwner)

InsertWhitelistParams_Body(q) ==
    [reader |-> [kind |-> "json",
                 m |-> [k \in {"kind", "id"} |->
                          IF k = "kind" THEN "youtubePartner#whitelist" ELSE q.Id]],
     err |-> NoError]

----------------------------------------------------------------------------
(* The Error type. Its declaration is not among the source files: the      *)
(* fields are those DecodeResponse and convertWhitelistError use, the tags *)
(* and the JSON keys follow the specification's error model.               *)

ErrTypeUnknown == "unknown"
ErrTypeJSON == "json"
ErrTypeBody == "body"

\* the zero value of Error, as `var e Error` leaves it
ZeroError ==
    [kind |-> "Error", StatusCode |-> 0, ErrorType |-> "",
     Description |-> <<>>, Body |-> <<>>]

----------------------------------------------------------------------------
(* A response body is a sequence of lexical units of JSON text: the braces *)
(* of an object and two members of the structured error schema.            *)

LB == "{"
RB == "}"
MemberError == "error:quotaExceeded"
MemberDescription == "error_description:gone"

BodyUnits == {LB, RB, MemberError, MemberDescription}
Members == {MemberError, MemberDescription}

Bodies == SeqsUpTo(BodyUnits, MaxBody)

\* strings.Index(text, "quotaExceeded") > -1, on a text given by its units
ContainsQuotaExceeded(text) ==
    \E i \in 1..Len(text) : text[i] = MemberError

(* encoding/json's Decoder.Decode reads ONE value from the stream: what     *)
(* follows the value is not looked at. scan is                              *)
(*   [ok, n, eof, msg]: ok: a complete value was read; n: the units the     *)
(*   scanner looked at; eof: the stream ended before the verdict; msg: the  *)
(*   decode failure message.                                                *)
RECURSIVE JSON_scanObject(_, _)
JSON_scanObject(body, i) ==
    IF i > Len(body)
    THEN [ok |-> FALSE, n |-> Len(body), eof |-> TRUE, msg |-> "unexpected EOF"]
    ELSE IF body[i] = RB
    THEN [ok |-> TRUE, n |-> i, eof |-> FALSE, msg |-> ""]
    ELSE IF body[i] \in Members
    THEN JSON_scanObject(body, i + 1)
    ELSE [ok |-> FALSE, n |-> i, eof |-> FALSE,
          msg |-> "invalid character '{' looking for beginning of object key string"]

JSON_scanValue(body) ==
    IF Len(body) = 0
    THEN [ok |-> FALSE, n |-> 0, eof |-> TRUE, msg |-> "EOF"]
    ELSE IF body[1] = LB
    THEN JSON_scanObject(body, 2)
    ELSE IF body[1] = RB
    THEN [ok |-> FALSE, n |-> 1, eof |-> FALSE,
          msg |-> "invalid character '}' looking for beginning of value"]
    ELSE \* a JSON string: a complete value, which no struct takes
         [ok |-> FALSE, n |-> 1, eof |-> FALSE,
          msg |-> "json: cannot unmarshal string into Go value"]

\* the last member of the object body[1..n] that sets `field`, or none
RECURSIVE JSON_member(_, _, _)
JSON_member(body, n, member) ==
    IF n < 1 THEN FALSE
    ELSE IF body[n] = member THEN TRUE
    ELSE JSON_member(body, n - 1, member)

\* Decode(&e) for e an Error: the keys error and error_description
JSON_DecodeError(body, e) ==
    LET s == JSON_scanValue(body)
    IN  IF ~s.ok THEN [ok |-> FALSE, e |-> e, msg |-> s.msg]
        ELSE [ok |-> TRUE, msg |-> "",
              e |-> [e EXCEPT
                  !.ErrorType = IF JSON_member(body, s.n, MemberError)
                                THEN "quotaExceeded" ELSE @,
                  !.Description = IF JSON_member(body, s.n, MemberDescription)
                                  THEN <<"gone">> ELSE @]]

\* Decode(out): out a pointer to a struct, or nil (json.InvalidUnmarshalError
\* once a value has been read)
JSON_DecodeOut(body, hasOut) ==
    LET s == JSON_scanValue(body)
    IN  IF ~s.ok THEN s
        ELSE IF ~hasOut
        THEN [ok |-> FALSE, n |-> s.n, eof |-> FALSE, msg |-> "json: Unmarshal(nil)"]
        ELSE s

(* What the decoder has taken from the stream when Decode returns: it reads *)
(* ahead in blocks, so at least the units it looked at and at most the      *)
(* whole body; all of it when the stream ended first.                       *)
Consumable(body, s) ==
    IF s.eof THEN {Len(body)} ELSE s.n..Len(body)

\* ioutil.ReadAll on a stream of which `taken` units were already read
ReadAll(body, taken) == SubSeq(body, taken + 1, Len(body))

----------------------------------------------------------------------------
(* request.go: DecodeResponse. A response is [StatusCode, Body, ReadErr]:   *)
(* ReadErr says that reading res.Body fails. hasOut: out is not nil.       *)
(* taken: the units the JSON decoder has taken from res.Body when Decode   *)
(* returns (it reads ahead).  The result is the error value returned; a    *)
(* typed Error is returned by value (kind "Error", never "*Error").        *)

ReadError == [kind |-> "io", name |-> "read error"]

\* a DecodeResponse that does not attach the status code
DecodeResponse_NoStatusCode(r, hasOut, taken) ==
    IF r.StatusCode >= 400
    THEN IF r.ReadErr THEN ReadError
         ELSE LET d == JSON_DecodeError(r.Body, ZeroError)
              IN  IF d.ok THEN d.e
                  ELSE [d.e EXCEPT !.ErrorType = ErrTypeUnknown, !.Description = r.Body]
    ELSE NoError

DecodeResponse(r, hasOut, taken) ==
    IF r.StatusCode >= 400
    THEN IF r.ReadErr THEN ReadError
         ELSE LET d == JSON_DecodeError(r.Body, ZeroError)
              IN  IF d.ok
                  THEN [d.e EXCEPT !.StatusCode = r.StatusCode]
                  ELSE [d.e EXCEPT !.StatusCode = r.StatusCode,
                                   !.ErrorType = ErrTypeUnknown,
                                   !.Description = r.Body]
    ELSE IF ~hasOut THEN NoError
    ELSE IF r.ReadErr
    THEN [ZeroError EXCEPT !.ErrorType = ErrTypeBody, !.Description = <<"read error">>]
    ELSE LET s == JSON_DecodeOut(r.Body, hasOut)
         IN  IF s.ok THEN NoError
             ELSE [ZeroError EXCEPT !.ErrorType = ErrTypeJSON,
                                    !.Description = <<s.msg>>,
                                    !.Body = ReadAll(r.Body, taken)]

(* The other DecodeResponse among the source files: it decodes res.Body    *)
(* before it reads it, and it has no check of a nil out.                   *)
DecodeResponse_part006(r, hasOut, taken) ==
    IF r.StatusCode >= 400
    THEN IF r.ReadErr THEN ReadError
         ELSE LET d == JSON_DecodeError(r.Body, ZeroError)
              IN  IF d.ok
                  THEN [d.e EXCEPT !.StatusCode = r.StatusCode]
                  ELSE [d.e EXCEPT !.StatusCode = r.StatusCode,
                                   !.ErrorType = ErrTypeUnknown,
                                   !.Description = ReadAll(r.Body, taken)]
    ELSE IF r.ReadErr
    THEN [ZeroError EXCEPT !.ErrorType = ErrTypeBody, !.Description = <<"read error">>]
    ELSE LET s == JSON_DecodeOut(r.Body, hasOut)
         IN  IF s.ok THEN NoError
             ELSE [ZeroError EXCEPT !.ErrorType = ErrTypeJSON,
                                    !.Description = <<s.msg>>,
                                    !.Body = ReadAll(r.Body, taken)]

\* the two files that define DecodeResponse; a build links one of them
Builds == {"request.go", "part_006"}

DecodeResponseOf(b, r, hasOut, taken) ==
    IF b = "request.go" THEN DecodeResponse(r, hasOut, taken)
    ELSE DecodeResponse_part006(r, hasOut, taken)

----------------------------------------------------------------------------
(* convertWhitelistError: its type assertion asks for a pointer to an      *)
(* Error, and holds of no Error passed by value                            *)

\* a conversion that takes every 403 for the quota error
convertWhitelistError_Any403(err) ==
    IF err = NoError THEN NoError
    ELSE IF err.kind # "*Error" THEN err
    ELSE IF err.StatusCode \in {403, 404}
    THEN (IF err.StatusCode = 404 THEN ErrNotWhitelisted ELSE ErrRateLimited)
    ELSE err

convertWhitelistError(err) ==
    IF err = NoError THEN NoError
    ELSE IF err.kind # "*Error" THEN err
    ELSE IF err.StatusCode = 404 THEN ErrNotWhitelisted
    ELSE IF err.StatusCode = 403 /\ ContainsQuotaExceeded(err.Body) THEN ErrRateLimited
    ELSE err

----------------------------------------------------------------------------
(* Inputs *)

IdSeqs == SeqsUpTo({"", "v1"}, MaxIds)
PartSeqs == SeqsUpTo({"snippet", "id"}, MaxIds)

ValidStatuses ==
    {ClaimStatusActive, ClaimStatusAppealed, ClaimStatusDisputed, ClaimStatusInactive,
     ClaimStatusPending, ClaimStatusPotential, ClaimStatusRoutedForReview,
     ClaimStatusTakedown}

StatusInputs == ValidStatuses \cup {"", "Active"}

ValidDate == <<"2", "0", "2", "0", "-", "0", "6", "-", "3", "0">>

\* a date with one character changed, and the beginnings of a date
DateCores ==
    {[ValidDate EXCEPT ![i] = c] : i \in 1..Len(ValidDate), c \in {"7", "-", "x"}}
    \cup {SubSeq(ValidDate, 1, n) : n \in 0..Len(ValidDate)}

Affixes == SeqsUpTo({"1", "-", "x"}, MaxAffix)

DateInputs == {a \o c \o b : a \in Affixes, c \in DateCores, b \in Affixes}

\* the parameters SearchClaims is called with
SearchClaimsInputs ==
    [AssetId : {"", "a1"}, Q : {"", "q1"}, ReferenceId : {"", "r1"},
     VideoIds : IdSeqs, PageToken : {""}, Status : StatusInputs,
     IncludeThirdPartyClaims : {FALSE}, OnBehalfOfContentOwner : {""},
     Sort : {""}, StatusModifiedAfter : {<<>>}]

\* the parameters Values is applied to: every date-like string, and every
\* combination of the other fields
SearchClaimsValuesInputs ==
    [AssetId : {"", "a1"}, Q : {""}, ReferenceId : {""},
     VideoIds : {<<>>}, PageToken : {""}, Status : {"", ClaimStatusActive},
     IncludeThirdPartyClaims : {FALSE}, OnBehalfOfContentOwner : {""},
     Sort : {""}, StatusModifiedAfter : DateInputs]
    \cup
    [AssetId : {"", "a1"}, Q : {"", "q1"}, ReferenceId : {"", "r1"},
     VideoIds : IdSeqs, PageToken : {"", "tok"},
     Status : {"", ClaimStatusActive, "Active"},
     IncludeThirdPartyClaims : BOOLEAN, OnBehalfOfContentOwner : {"", "owner"},
     Sort : {"", ClaimSortDate, ClaimSortViewCount, "title"},
     StatusModifiedAfter : {<<>>, ValidDate}]

PatchClaimsInputs ==
    [ClaimId : {"", "c1"}, OnBehalfOfContentOwner : {"", "owner"}, Status : StatusInputs]

ListVideoInputs == [Parts : PartSeqs, Ids : IdSeqs, PageToken : {"", "tok"}]

\* the parameters ListVideos is called with
ListVideosCallInputs ==
    [Parts : {<<>>, <<"snippet">>}, Ids : {<<>>, <<"v1">>}, PageToken : {"", "tok"}]

WhitelistInputs == [Id : {"", "ch1"}, OnBehalfOfContentOwner : {"", "owner"}]

UserInfoInputs == [Token : {"", "tok"}]

AuthTokenInputs ==
    [ClientId : {"id"}, ClientSecret : {"secret"}, Code : {"", "code"}, Redirect : {"uri"}]

JwtTokenInputs == [Jwt : {"", "jwt"}]

StatusCodes == {200, 399, 400, 403, 404}

Responses ==
    [StatusCode : StatusCodes, Body : Bodies, ReadErr : {FALSE}]
    \cup [StatusCode : StatusCodes, Body : {<<>>}, ReadErr : {TRUE}]

TransportErrors ==
    {[kind |-> "transport", name |-> "timeout"],
     [kind |-> "transport", name |-> "connection refused"]}

\* the errors convertWhitelistError is applied to on its own: nil, typed
\* Errors held by pointer and by value, and errors of other types
ConvertStatusCodes == {400, 401, 403, 404, 500}

ConvertInputs ==
    {NoError, ReadError, ErrNotWhitelisted, ErrRateLimited, ErrInvalidClaimSearchParams}
    \cup TransportErrors
    \cup [kind : {"Error", "*Error"}, StatusCode : ConvertStatusCodes,
          ErrorType : {ErrTypeUnknown, ErrTypeJSON},
          Description : {<<>>, <<MemberError>>},
          Body : {<<>>, <<MemberError>>, <<LB, MemberError, RB>>}]

NoRequest == [Method |-> "none"]
NoResponse == [StatusCode |-> 0]
NoReturn == [val |-> "pending", err |-> NoError]
NoCalc == [fn |-> "none"]

----------------------------------------------------------------------------
(* The state: build is the DecodeResponse linked in; pc is the position of *)
(* the one invocation (idle, running: inside runner.Run, done: returned);  *)
(* op and p are the operation and its parameters; request is the Request   *)
(* handed to runner.Run; runCalls and decodeCalls count the calls of       *)
(* runner.Run and DecodeResponse; runErr and res are the error and the     *)
(* response runner.Run returned; decoded is the error DecodeResponse       *)
(* returned; ret is what the operation returned; calc is the result of a   *)
(* function applied on its own.                                            *)

Init ==
    /\ build \in Builds
    /\ pc = "idle"
    /\ op = "none"
    /\ p = [none |-> TRUE]
    /\ request = NoRequest
    /\ runCalls = 0
    /\ decodeCalls = 0
    /\ runErr = NoError
    /\ res = NoResponse
    /\ decoded = NoError
    /\ ret = NoReturn
    /\ calc = NoCalc

\* the operation returns before runner.Run
Reject(o, q, err) ==
    /\ pc = "idle"
    /\ pc' = "done"
    /\ op' = o
    /\ p' = q
    /\ ret' = [val |-> "nil", err |-> err]
    /\ UNCHANGED <<build, request, runCalls, decodeCalls, runErr, res, decoded, calc>>

\* the operation calls runner.Run(req)
Issue(o, q, req) ==
    /\ pc = "idle"
    /\ pc' = "running"
    /\ op' = o
    /\ p' = q
    /\ request' = req
    /\ runCalls' = runCalls + 1
    /\ UNCHANGED <<build, decodeCalls, runErr, res, decoded, ret, calc>>

\* a SearchClaims that sends the request without validating
SearchClaims_NoValidate(q) ==
    Issue("SearchClaims", q,
          [Method |-> "GET", Url |-> SearchClaimsUrl,
           Params |-> SearchClaimsParams_Values(q), Body |-> NoReader])

SearchClaims(q) ==
    IF ~SearchClaimsParams_Validate(q)
    THEN Reject("SearchClaims", q, ErrInvalidClaimSearchParams)
    ELSE Issue("SearchClaims", q,
               [Method |-> "GET", Url |-> SearchClaimsUrl,
                Params |-> SearchClaimsParams_Values(q), Body |-> NoReader])

PatchClaims(q) ==
    IF ~PatchClaimsParams_Validate(q)
    THEN Reject("PatchClaims", q, ErrInvalidPatchClaimsParams)
    ELSE IF PatchClaimsParams_Body(q).err # NoError
    THEN Reject("PatchClaims", q, PatchClaimsParams_Body(q).err)
    ELSE Issue("PatchClaims", q,
               [Method |-> "PATCH", Url |-> PatchClaimsParams_Url(q),
                Params |-> PatchClaimsParams_Params(q),
                Body |-> PatchClaimsParams_Body(q).reader])

ListVideos(q) ==
    Issue("ListVideos", q,
          [Method |-> "GET", Url |-> ListVideosUrl,
           Params |-> ListVideoParams_Values(q), Body |-> NoReader])

GetWhitelist(q) ==
    Issue("GetWhitelist", q,
          [Method |-> "GET", Url |-> WhitelistUrl \o "/" \o q.Id,
           Params |-> WhitelistParams_Values(q), Body |-> NoReader])

InsertWhitelist(q) ==
    IF InsertWhitelistParams_Body(q).err # NoError
    THEN Reject("InsertWhitelist", q, InsertWhitelistParams_Body(q).err)
    ELSE Issue("InsertWhitelist", q,
               [Method |-> "POST", Url |-> WhitelistUrl,
                Params |-> WhitelistParams_Values(q),
                Body |-> InsertWhitelistParams_Body(q).reader])

DeleteWhitelist(q) ==
    Issue("DeleteWhitelist", q,
          [Method |-> "DELETE", Url |-> WhitelistUrl \o "/" \o q.Id,
           Params |-> WhitelistParams_Values(q), Body |-> NoReader])

GetUserInfo(q) ==
    Issue("GetUserInfo", q,
          [Method |-> "GET", Url |-> UserInfoUrl, Params |-> EmptyValues,
           Body |-> NoReader])

ExchangeAuthToken(q) ==
    Issue("ExchangeAuthToken", q,
          [Method |-> "POST", Url |-> ExchangeOAuthTokenUrl,
           Params |-> Values_Add(Values_Add(Values_Add(Values_Add(Values_Add(
                         EmptyValues, "client_id", q.ClientId),
                         "client_secret", q.ClientSecret),
                         "grant_type", "authorization_code"),
                         "code", q.Code),
                         "redirect_uri", q.Redirect),
           Body |-> NoReader])

ExchangeJwtToken(q) ==
    Issue("ExchangeJwtToken", q,
          [Method |-> "POST", Url |-> ExchangeOAuthTokenUrl,
           Params |-> Values_Add(Values_Add(EmptyValues,
                         "grant_type", "urn:ietf:params:oauth:grant-type:jwt-bearer"),
                         "assertion", q.Jwt),
           Body |-> NoReader])

----------------------------------------------------------------------------
(* After runner.Run *)

WhitelistOps == {"GetWhitelist", "InsertWhitelist", "DeleteWhitelist"}

\* the out handed to DecodeResponse: DeleteWhitelist hands nil
HasOut(o) == o # "DeleteWhitelist"

\* an operation that calls runner.Run again after a transport error
AfterRunError_Retry(o, e) ==
    [again |-> TRUE, ret |-> NoReturn]

\* an operation that passes a transport error through convertWhitelistError's
\* remapping and reports it as the sentinel of the whitelist
AfterRunError_Remapped(o, e) ==
    [again |-> FALSE,
     ret |-> [val |-> "nil",
              err |-> IF o \in WhitelistOps THEN ErrNotWhitelisted ELSE e]]

\* `if err != nil { return nil, err }`: no second call, the error as it is
AfterRunError(o, e) ==
    [again |-> FALSE, ret |-> [val |-> "nil", err |-> e]]

\* what the operation returns, given the error of DecodeResponse
AfterDecode(o, derr) ==
    IF o = "DeleteWhitelist"
    THEN [val |-> "nil", err |-> convertWhitelistError(derr)]
    ELSE IF derr # NoError
    THEN [val |-> "nil",
          err |-> IF o \in WhitelistOps THEN convertWhitelistError(derr) ELSE derr]
    ELSE [val |-> "out", err |-> NoError]

\* runner.Run returns a transport error
RunnerFails(e) ==
    /\ pc = "running"
    /\ IF AfterRunError(op, e).again
       THEN /\ pc' = "running"
            /\ runCalls' = runCalls + 1
            /\ ret' = ret
       ELSE /\ pc' = "done"
            /\ runCalls' = runCalls
            /\ ret' = AfterRunError(op, e).ret
    /\ runErr' = e
    /\ UNCHANGED <<build, op, p, request, decodeCalls, res, decoded, calc>>

\* runner.Run returns a response, and the operation decodes it
RunnerResponds(r, taken) ==
    /\ pc = "running"
    /\ taken \in Consumable(r.Body, JSON_scanValue(r.Body))
    /\ pc' = "done"
    /\ res' = r
    /\ decodeCalls' = decodeCalls + 1
    /\ decoded' = DecodeResponseOf(build, r, HasOut(op), taken)
    /\ ret' = AfterDecode(op, decoded')
    /\ UNCHANGED <<build, op, p, request, runCalls, runErr, calc>>

----------------------------------------------------------------------------
(* The parameter methods, applied on their own *)

Apply(fn, q, result) ==
    /\ pc = "idle"
    /\ pc' = "done"
    /\ op' = fn
    /\ p' = q
    /\ calc' = [fn |-> fn, out |-> result]
    /\ UNCHANGED <<build, request, runCalls, decodeCalls, runErr, res, decoded, ret>>

ApplyValidate(q) ==
    Apply("SearchClaimsParams.Validate", q, SearchClaimsParams_Validate(q))

ApplyValues(q) ==
    Apply("SearchClaimsParams.Values", q, SearchClaimsParams_Values(q))

ApplyBody(q) ==
    Apply("PatchClaimsParams.Body", q, PatchClaimsParams_Body(q))

ApplyListValues(q) ==
    Apply("ListVideoParams.Values", q, ListVideoParams_Values(q))

ApplyConvert(e) ==
    Apply("convertWhitelistError", e, convertWhitelistError(e))

Next ==
    \/ pc = "idle" /\ \E q \in SearchClaimsInputs : SearchClaims(q)
    \/ pc = "idle" /\ \E q \in PatchClaimsInputs : PatchClaims(q)
    \/ pc = "idle" /\ \E q \in ListVideosCallInputs : ListVideos(q)
    \/ pc = "idle" /\ \E q \in WhitelistInputs : GetWhitelist(q)
    \/ pc = "idle" /\ \E q \in WhitelistInputs : InsertWhitelist(q)
    \/ pc = "idle" /\ \E q \in WhitelistInputs : DeleteWhitelist(q)
    \/ pc = "idle" /\ \E q \in UserInfoInputs : GetUserInfo(q)
    \/ pc = "idle" /\ \E q \in AuthTokenInputs : ExchangeAuthToken(q)
    \/ pc = "idle" /\ \E q \in JwtTokenInputs : ExchangeJwtToken(q)
    \/ pc = "running" /\ \E e \in TransportErrors : RunnerFails(e)
    \/ pc = "running" /\ \E r \in Responses, taken \in 0..MaxBody : RunnerResponds(r, taken)
    \/ pc = "idle" /\ \E q \in SearchClaimsInputs : ApplyValidate(q)
    \/ pc = "idle" /\ \E q \in SearchClaimsValuesInputs : ApplyValues(q)
    \/ pc = "idle" /\ \E q \in PatchClaimsInputs : ApplyBody(q)
    \/ pc = "idle" /\ \E q \in ListVideoInputs : ApplyListValues(q)
    \/ pc = "idle" /\ \E e \in ConvertInputs : ApplyConvert(e)

Spec == Init /\ [][Next]_vars

----------------------------------------------------------------------------
(* Vocabulary of the properties *)

Operations ==
    {"ListVideos", "SearchClaims", "PatchClaims", "GetWhitelist", "InsertWhitelist",
     "DeleteWhitelist", "GetUserInfo", "ExchangeAuthToken", "ExchangeJwtToken"}

\* which of AssetId, Q, ReferenceId and VideoIds are set
FiltersSet(q) ==
    {f \in {"AssetId", "Q", "ReferenceId"} : q[f] # ""}
    \cup (IF Len(q.VideoIds) > 0 THEN {"VideoIds"} ELSE {})

\* Status is empty or not one of the eight recognized values
BadStatus(q) == q.Status \notin ValidStatuses

\* the whole string is four digits, dash, two digits, dash, two digits
IsExactlyADate(s) == Len(s) = 10 /\ DateRegexp_MatchesAt(s, 1)

\* the operation has local validation and the parameters pass it
LocalValidationPasses(o, q) ==
    CASE o = "SearchClaims" -> SearchClaimsParams_Validate(q)
      [] o = "PatchClaims" -> PatchClaimsParams_Validate(q)
      [] OTHER -> TRUE

\* DecodeResponse has returned for a response whose body could be read
Decoded == pc = "done" /\ decodeCalls = 1 /\ ~res.ReadErr

\* the body starts with a complete JSON object
BodyParses == JSON_scanValue(res.Body).ok

----------------------------------------------------------------------------
(* C1 *)

\* C1, as stated: Validate() returns false if zero or more than one of
\* {AssetId, Q, ReferenceId, VideoIds} is set, or if Status is empty or not
\* one of the eight recognized values.
C1_ValidateRejectsZeroOrManyFilters ==
    op = "SearchClaimsParams.Validate" =>
        ((Cardinality(FiltersSet(p)) # 1 \/ BadStatus(p)) => calc.out = FALSE)

\* C1, amended: Validate() returns false if more than one of {AssetId, Q,
\* ReferenceId, VideoIds} is set, or if Status is empty or not one of the
\* eight recognized values.
C1_ValidateRejectsManyFilters ==
    op = "SearchClaimsParams.Validate" =>
        ((Cardinality(FiltersSet(p)) > 1 \/ BadStatus(p)) => calc.out = FALSE)

C1_Witness ==
    /\ op = "SearchClaimsParams.Validate"
    /\ p.AssetId # "" /\ p.VideoIds = <<"v1">> /\ p.Status = ClaimStatusPending
    /\ calc.out = FALSE

----------------------------------------------------------------------------
(* C2 *)

\* C2: with exactly one of {AssetId, Q, ReferenceId, VideoIds} set and a
\* recognized Status, Validate() returns true and SearchClaims calls
\* runner.Run instead of returning ErrInvalidClaimSearchParams.
C2_OneFilterWithStatusAccepted ==
    /\ (op = "SearchClaimsParams.Validate"
            /\ Cardinality(FiltersSet(p)) = 1 /\ ~BadStatus(p))
        => calc.out = TRUE
    /\ (op = "SearchClaims" /\ Cardinality(FiltersSet(p)) = 1 /\ ~BadStatus(p))
        => (runCalls = 1 /\ ret.err # ErrInvalidClaimSearchParams)

----------------------------------------------------------------------------
(* C3 *)

\* C3: Values() holds the key statusModifiedAfter only if the whole of
\* StatusModifiedAfter is four digits, dash, two digits, dash, two digits.
C3_DateEmittedOnlyOnExactMatch ==
    op = "SearchClaimsParams.Values" =>
        ("statusModifiedAfter" \in DOMAIN calc.out
            => IsExactlyADate(p.StatusModifiedAfter))

----------------------------------------------------------------------------
(* C4 *)

\* C4: with a Status that is empty or not recognized, Body() returns
\* ErrInvalidPatchClaimsParams and no reader, and PatchClaims never calls
\* runner.Run.
C4_PatchBodyRejectsBadStatus ==
    /\ (op = "PatchClaimsParams.Body" /\ BadStatus(p))
        => calc.out = [reader |-> NoReader, err |-> ErrInvalidPatchClaimsParams]
    /\ (op = "PatchClaims" /\ BadStatus(p))
        => (pc = "done" /\ runCalls = 0 /\ request = NoRequest)

C4_Witness ==
    /\ op = "PatchClaimsParams.Body"
    /\ p.ClaimId = "c1" /\ p.Status = "Active"
    /\ calc.out.err = ErrInvalidPatchClaimsParams

----------------------------------------------------------------------------
(* C5 *)

\* C5: when SearchClaimsParams.Validate() is false SearchClaims returns
\* (nil, ErrInvalidClaimSearchParams), and when ClaimId is empty or Status
\* is empty or not recognized PatchClaims returns
\* (nil, ErrInvalidPatchClaimsParams); in both cases runner.Run is not
\* called.
C5_ValidationFailureMakesNoCall ==
    /\ (op = "SearchClaims" /\ ~SearchClaimsParams_Validate(p))
        => /\ pc = "done"
           /\ ret = [val |-> "nil", err |-> ErrInvalidClaimSearchParams]
           /\ runCalls = 0 /\ request = NoRequest
    /\ (op = "PatchClaims" /\ (p.ClaimId = "" \/ BadStatus(p)))
        => /\ pc = "done"
           /\ ret = [val |-> "nil", err |-> ErrInvalidPatchClaimsParams]
           /\ runCalls = 0 /\ request = NoRequest

C5_Witness ==
    /\ op = "SearchClaims" /\ pc = "done"
    /\ p.AssetId # "" /\ p.Q # "" /\ p.Status = ClaimStatusActive
    /\ ret.err = ErrInvalidClaimSearchParams
    /\ runCalls = 0

----------------------------------------------------------------------------
(* C6 *)

\* C6: an invocation of an exported operation calls runner.Run exactly once
\* when its local validation passes, and never more than once: no second
\* call follows a transport error, an error status or a decode failure.
C6_ExactlyOneRun ==
    /\ runCalls <= 1
    /\ pc = "running" => runCalls = 1
    /\ (pc = "done" /\ op \in Operations /\ LocalValidationPasses(op, p))
        => runCalls = 1

C6_Witness ==
    /\ pc = "done" /\ op = "InsertWhitelist"
    /\ ret.err \in TransportErrors
    /\ runCalls = 1

----------------------------------------------------------------------------
(* C7 *)

\* C7: for a response with status >= 400 whose body parses as the
\* structured error schema, DecodeResponse returns a typed Error whose
\* StatusCode is the response's status and whose description and type are
\* the parsed ones, not an unknown-tagged or JSON-decode-failure error.
C7_StructuredErrorKeepsStatus ==
    (Decoded /\ res.StatusCode >= 400 /\ BodyParses)
        => /\ decoded.kind = "Error"
           /\ decoded.StatusCode = res.StatusCode
           /\ decoded.Description = JSON_DecodeError(res.Body, ZeroError).e.Description
           /\ decoded.ErrorType = JSON_DecodeError(res.Body, ZeroError).e.ErrorType
           /\ decoded.ErrorType \notin {ErrTypeUnknown, ErrTypeJSON}

C7_Witness ==
    /\ Decoded /\ build = "request.go"
    /\ res.StatusCode = 404 /\ res.Body = <<LB, MemberDescription, RB>>
    /\ decoded.StatusCode = 404 /\ decoded.Description = <<"gone">>

----------------------------------------------------------------------------
(* C8 *)

\* C8: for a response with status >= 400 whose body does not parse as the
\* structured error schema, DecodeResponse returns a typed Error with the
\* response's status, the type ErrTypeUnknown and the complete raw body as
\* its Description.
C8_UnknownErrorCarriesWholeBody ==
    (Decoded /\ res.StatusCode >= 400 /\ ~BodyParses)
        => /\ decoded.kind = "Error"
           /\ decoded.StatusCode = res.StatusCode
           /\ decoded.ErrorType = ErrTypeUnknown
           /\ decoded.Description = res.Body

----------------------------------------------------------------------------
(* C9 *)

\* C9: with a nil target and a status < 400 DecodeResponse returns nil
\* whatever the body holds, so DeleteWhitelist returns nil for every
\* response with status < 400.
C9_NilTargetSucceeds ==
    (pc = "done" /\ decodeCalls = 1 /\ ~HasOut(op) /\ res.StatusCode < 400)
        => (decoded = NoError /\ ret.err = NoError)

----------------------------------------------------------------------------
(* C10 *)

\* C10: for a response with status < 400 and a non-nil target whose body
\* fails to decode, DecodeResponse returns a typed Error tagged ErrTypeJSON
\* whose Description is the decode failure message and whose Body is the
\* full raw body that was received.
C10_JSONErrorCarriesWholeBody ==
    (Decoded /\ HasOut(op) /\ res.StatusCode < 400 /\ ~BodyParses)
        => /\ decoded.kind = "Error"
           /\ decoded.ErrorType = ErrTypeJSON
           /\ decoded.Description = <<JSON_scanValue(res.Body).msg>>
           /\ decoded.Body = res.Body

----------------------------------------------------------------------------
(* C11 *)

\* C11: whenever runner.Run returns a response with status 404 to
\* GetWhitelist, InsertWhitelist or DeleteWhitelist, the operation returns
\* the sentinel ErrNotWhitelisted and not the typed Error.
C11_NotFoundBecomesNotWhitelisted ==
    (Decoded /\ op \in WhitelistOps /\ res.StatusCode = 404)
        => ret.err = ErrNotWhitelisted

----------------------------------------------------------------------------
(* C12 *)

\* C12: a 403 response whose body contains quotaExceeded, decoded by
\* DecodeResponse and passed through convertWhitelistError, gives
\* ErrRateLimited, whether the body parses as the structured error or not.
C12_QuotaExceededBecomesRateLimited ==
    (Decoded /\ op \in WhitelistOps /\ res.StatusCode = 403
        /\ ContainsQuotaExceeded(res.Body))
        => ret.err = ErrRateLimited

----------------------------------------------------------------------------
(* C13 *)

\* C13: when runner.Run returns a transport error e, the operation returns
\* exactly e, not wrapped, remapped or turned into a typed Error, returns no
\* result value, and does not call DecodeResponse.
C13_TransportErrorReturnedAsIs ==
    (pc = "done" /\ op \in Operations /\ runErr # NoError)
        => /\ ret.err = runErr
           /\ ret.val = "nil"
           /\ decodeCalls = 0
           /\ decoded = NoError

C13_Witness ==
    /\ pc = "done" /\ op = "DeleteWhitelist"
    /\ runErr \in TransportErrors
    /\ ret = [val |-> "nil", err |-> runErr]
    /\ decodeCalls = 0

----------------------------------------------------------------------------
(* C14 *)

\* C14: ListVideoParams.Values() emits the key part exactly once, with the
\* parts joined by commas (the empty string when Parts is empty); with a
\* non-empty PageToken it emits pageToken and no id, even if Ids is
\* non-empty; with an empty PageToken and non-empty Ids it emits id, the ids
\* joined by commas, and no pageToken; it never emits both.
C14_PageTokenExcludesIds ==
    (pc = "done" /\ op = "ListVideoParams.Values")
        => /\ "part" \in DOMAIN calc.out
           /\ calc.out["part"] = <<Join(p.Parts, ",")>>
           /\ Len(p.Parts) = 0 => calc.out["part"] = <<"">>
           /\ p.PageToken # ""
                => /\ "pageToken" \in DOMAIN calc.out
                   /\ calc.out["pageToken"] = <<p.PageToken>>
                   /\ "id" \notin DOMAIN calc.out
           /\ (p.PageToken = "" /\ Len(p.Ids) > 0)
                => /\ "id" \in DOMAIN calc.out
                   /\ calc.out["id"] = <<Join(p.Ids, ",")>>
                   /\ "pageToken" \notin DOMAIN calc.out
           /\ ~({"id", "pageToken"} \subseteq DOMAIN calc.out)

C14_Witness ==
    /\ pc = "done" /\ op = "ListVideoParams.Values"
    /\ p.PageToken = "tok" /\ p.Ids = <<"v1", "v1">> /\ p.Parts = <<"snippet", "id">>
    /\ calc.out = [k \in {"part", "pageToken"} |->
                      IF k = "part" THEN <<"snippet,id">> ELSE <<"tok">>]

----------------------------------------------------------------------------
(* C15 *)

\* C15: GetWhitelist, InsertWhitelist and DeleteWhitelist require a channel
\* ID: called with an empty Id they return a local validation error without
\* calling runner.Run.
C15_EmptyIdRejectedLocally ==
    (op \in WhitelistOps /\ p.Id = "")
        => /\ pc = "done"
           /\ runCalls = 0
           /\ ret.err # NoError

----------------------------------------------------------------------------
(* C16 *)

\* the error is a typed Error, held by pointer or by value, that mentions
\* quotaExceeded in its body, its description or its type
MentionsQuotaExceeded(err) ==
    \/ ContainsQuotaExceeded(err.Body)
    \/ ContainsQuotaExceeded(err.Description)
    \/ err.ErrorType = "quotaExceeded"

\* the two cases the conversion is for: a typed Error with status 404, or
\* with status 403 and quotaExceeded
RemapCase(err) ==
    /\ err.kind \in {"Error", "*Error"}
    /\ \/ err.StatusCode = 404
       \/ err.StatusCode = 403 /\ MentionsQuotaExceeded(err)

Sentinels == {ErrNotWhitelisted, ErrRateLimited}

\* C16: convertWhitelistError returns nil for nil and returns its argument
\* unchanged for every error outside the two cases (400, 401, 500, 403
\* without the substring, decode failures, errors of other types), on its own
\* and inside the whitelist operations; and SearchClaims, PatchClaims,
\* ListVideos, GetUserInfo and the token exchanges never return
\* ErrNotWhitelisted or ErrRateLimited.
C16_RemapOnlyAtWhitelist ==
    /\ (pc = "done" /\ op = "convertWhitelistError")
        => /\ p = NoError => calc.out = NoError
           /\ ~RemapCase(p) => calc.out = p
    /\ (pc = "done" /\ decodeCalls = 1 /\ op \in WhitelistOps /\ ~RemapCase(decoded))
        => ret.err = decoded
    /\ (op \in Operations \ WhitelistOps) => ret.err \notin Sentinels

C16_Witness ==
    /\ pc = "done" /\ op = "convertWhitelistError"
    /\ p.kind = "*Error" /\ p.StatusCode = 403 /\ ~MentionsQuotaExceeded(p)
    /\ calc.out = p

----------------------------------------------------------------------------
(* C17 *)

\* C17: for every PatchClaimsParams for which Validate() returns true,
\* Body() succeeds and the body carries exactly the one key status with the
\* parameters' Status, so PatchClaims never fails at body building after a
\* passed validation; and every request PatchClaims issues is a PATCH to
\* PatchClaimUrl + "/" + a non-empty ClaimId with a recognized status as the
\* only key of its body.
C17_PatchRequestWellFormed ==
    /\ (pc = "done" /\ op = "PatchClaimsParams.Body" /\ PatchClaimsParams_Validate(p))
        => /\ calc.out.err = NoError
           /\ calc.out.reader.kind = "json"
           /\ calc.out.reader.m = [k \in {"status"} |-> p.Status]
    /\ (op = "PatchClaims" /\ PatchClaimsParams_Validate(p)) => runCalls = 1
    /\ (op = "PatchClaims" /\ runCalls > 0)
        => /\ request.Method = "PATCH"
           /\ p.ClaimId # ""
           /\ request.Url = PatchClaimUrl \o "/" \o p.ClaimId
           /\ p.Status \in ValidStatuses
           /\ request.Body.kind = "json"
           /\ request.Body.m = [k \in {"status"} |-> p.Status]

C17_Witness ==
    /\ pc = "running" /\ op = "PatchClaims"
    /\ p.ClaimId = "c1" /\ p.Status = ClaimStatusInactive
    /\ request.Method = "PATCH"
    /\ request.Url = "https://www.googleapis.com/youtube/partner/v1/claims/c1"
    /\ request.Body = [kind |-> "json", m |-> [k \in {"status"} |-> ClaimStatusInactive]]

====
